---- MODULE Spec2Model ----
(***************************************************************************)
(* A model of jet/forms.py: the four admin forms AddBookmarkForm,          *)
(* RemoveBookmarkForm, ToggleApplicationPinForm and ModelLookupForm.       *)
(*                                                                         *)
(* The mutation forms are served by a small pool of workers; a worker      *)
(* binds a form to a request, validates it and, when it is valid, saves    *)
(* it.  Every database statement is one step, so two workers interleave    *)
(* between the statements of one save().  The lookup form reads only the   *)
(* model registry, the permission table and the rows of the target model,  *)
(* none of which a form of this module writes.                             *)
(***************************************************************************)
EXTENDS Integers, Sequences, FiniteSets, TLC

VARIABLES
    bookmarks,      \* table jet_bookmark: set of [id, url, title, user]
    pins,           \* table jet_pinnedapplication: set of [id, app_label, user]
    nextId,         \* the next auto-increment primary key, per table
    procs,          \* per worker: the form it is handling and where it is
    lk,             \* the ModelLookupForm in flight (or idle)
    reqs,           \* number of mutation requests started so far
    createdBy,      \* history: <<table, id>> -> the requester that created it
    toggleCalls     \* history: <<user, app_label>> -> completed save(commit=True)

vars == <<bookmarks, pins, nextId, procs, lk, reqs, createdBy, toggleCalls>>

(***************************************************************************)
(* Bounds of the exploration.                                              *)
(***************************************************************************)
MaxRequests == 3
MaxRows == 3
MaxPage == 3

Workers == {"w1", "w2"}

\* A value that is not submitted / Python's None.
Absent == "<absent>"
None == "<None>"

(***************************************************************************)
(* The users of the installation (auth.User rows and the anonymous user).  *)
(***************************************************************************)
Users == {"anon", "alice", "bob", "carol", "dave"}

UserTable ==
    [u \in Users |->
        CASE u = "anon"  -> [is_authenticated |-> FALSE, is_staff |-> FALSE,
                             perms |-> {}]
          [] u = "alice" -> [is_authenticated |-> TRUE, is_staff |-> TRUE,
                             perms |-> {"jet.change_bookmark", "shop.view_item",
                                        "shop.change_order", "shop.change_tag",
                                        "shop.view_note", "blog.view_itemproxy"}]
          [] u = "bob"   -> [is_authenticated |-> TRUE, is_staff |-> TRUE,
                             perms |-> {"jet.change_bookmark", "shop.add_item",
                                        "shop.delete_item", "shop.view_order",
                                        "shop.change_note"}]
          [] u = "carol" -> [is_authenticated |-> TRUE, is_staff |-> FALSE,
                             perms |-> {"jet.change_bookmark", "shop.view_item",
                                        "shop.change_item", "shop.change_order"}]
          [] u = "dave"  -> [is_authenticated |-> TRUE, is_staff |-> TRUE,
                             perms |-> {"shop.add_order", "shop.delete_order"}]]

user_is_authenticated(u) == UserTable[u].is_authenticated

is_staff(u) == UserTable[u].is_staff

has_perm(u, perm) == perm \in UserTable[u].perms

(***************************************************************************)
(* Form fields.  A CharField maps a missing value to the empty string; a   *)
(* required one rejects the empty string.                                  *)
(***************************************************************************)
CharField_clean(raw) == IF raw = Absent THEN "" ELSE raw

RequiredOk(raw) == CharField_clean(raw) # ""

(***************************************************************************)
(* AddBookmarkForm                                                         *)
(***************************************************************************)
AddBookmarkForm_clean(u) ==
    IF ~user_is_authenticated(u) \/ ~is_staff(u) THEN FALSE
    ELSE IF ~has_perm(u, "jet.change_bookmark") THEN FALSE
    ELSE TRUE

\* Meta.fields = ['url', 'title']: only these reach the instance.
AddBookmarkForm_fields(data) ==
    [url |-> CharField_clean(data.url), title |-> CharField_clean(data.title)]

AddBookmarkForm_is_valid(u, data) ==
    /\ RequiredOk(data.url)
    /\ RequiredOk(data.title)
    /\ AddBookmarkForm_clean(u)

\* Mutant: the owner is taken from the posted data when it names one.
AddBookmarkForm_owner_FromData(u, data) ==
    IF data.user # Absent THEN data.user ELSE u

\* save(): self.instance.user = self.request.user
AddBookmarkForm_owner(u, data) == u

(***************************************************************************)
(* RemoveBookmarkForm                                                      *)
(***************************************************************************)
\* Mutant: the staff check is left out.
RemoveBookmarkForm_clean_NoStaffCheck(u, instance) ==
    IF instance.user # u THEN FALSE ELSE TRUE

\* Mutant: the ownership check is left out.
RemoveBookmarkForm_clean_NoOwnerCheck(u, instance) ==
    IF ~user_is_authenticated(u) \/ ~is_staff(u) THEN FALSE ELSE TRUE

RemoveBookmarkForm_clean(u, instance) ==
    IF ~user_is_authenticated(u) \/ ~is_staff(u) THEN FALSE
    ELSE IF instance.user # u THEN FALSE
    ELSE TRUE

(***************************************************************************)
(* ToggleApplicationPinForm                                                *)
(***************************************************************************)
ToggleApplicationPinForm_clean(u) ==
    IF ~user_is_authenticated(u) \/ ~is_staff(u) THEN FALSE
    ELSE TRUE

ToggleApplicationPinForm_is_valid(u, data) ==
    /\ RequiredOk(data.app_label)
    /\ ToggleApplicationPinForm_clean(u)

\* Mutant: the query filters on app_label alone.
PinnedApplication_get_AnyUser(table, app, u) ==
    LET rows == {r \in table : r.app_label = app}
    IN  IF rows = {} THEN [outcome |-> "DoesNotExist", id |-> 0]
        ELSE IF Cardinality(rows) = 1
             THEN [outcome |-> "found", id |-> (CHOOSE r \in rows : TRUE).id]
             ELSE [outcome |-> "MultipleObjectsReturned", id |-> 0]

\* PinnedApplication.objects.get(app_label=..., user=...)
PinnedApplication_get(table, app, u) ==
    LET rows == {r \in table : r.app_label = app /\ r.user = u}
    IN  IF rows = {} THEN [outcome |-> "DoesNotExist", id |-> 0]
        ELSE IF Cardinality(rows) = 1
             THEN [outcome |-> "found", id |-> (CHOOSE r \in rows : TRUE).id]
             ELSE [outcome |-> "MultipleObjectsReturned", id |-> 0]

\* PinnedApplication.objects.create(app_label=..., user=...)
PinnedApplication_create(table, id, app, u) ==
    table \cup {[id |-> id, app_label |-> app, user |-> u]}

\* Mutant: the row is not deleted.
Model_delete_Noop(table, id) == table

\* pinned_app.delete(): DELETE ... WHERE id = pk
Model_delete(table, id) == {r \in table : r.id # id}

(***************************************************************************)
(* Workers.  pc: idle -> valid | rejected -> ... -> done -> idle           *)
(***************************************************************************)
NoInstance == [id |-> 0, url |-> "", title |-> "", user |-> None]

NoData == [url |-> Absent, title |-> Absent, user |-> Absent, app_label |-> Absent]

IdleProc ==
    [pc |-> "idle", form |-> "none", user |-> "anon", data |-> NoData,
     instance |-> NoInstance, commit |-> FALSE, found |-> 0, created |-> 0,
     seen |-> 0, ret |-> None]

UrlInputs == {Absent, "/admin/"}
TitleInputs == {"Home"}
PostedUserInputs == {Absent, "bob"}
AppLabelInputs == {Absent, "shop"}

\* Whether the caller may start another request: under the serial
\* specification a request starts only when no other is in flight.
MayStart(p, serial) ==
    /\ procs[p].pc = "idle"
    /\ lk.pc = "idle"
    /\ reqs < MaxRequests
    /\ serial => \A q \in Workers : procs[q].pc = "idle"

\* form.is_valid() decides whether save() is called at all.
AfterIsValid(ok) == IF ok THEN "valid" ELSE "rejected"

\* form = AddBookmarkForm(request, request.POST); form.is_valid()
AddIsValid(p, serial) ==
    /\ MayStart(p, serial)
    /\ \E u \in Users, url \in UrlInputs, title \in TitleInputs,
          posted \in PostedUserInputs, commit \in BOOLEAN :
          LET data == [NoData EXCEPT !.url = url, !.title = title, !.user = posted]
              fields == AddBookmarkForm_fields(data)
          IN  procs' = [procs EXCEPT ![p] =
                  [IdleProc EXCEPT
                      !.pc = AfterIsValid(AddBookmarkForm_is_valid(u, data)),
                      !.form = "add", !.user = u, !.data = data,
                      !.instance = [NoInstance EXCEPT !.url = fields.url,
                                                      !.title = fields.title],
                      !.commit = commit]]
    /\ reqs' = reqs + 1
    /\ UNCHANGED <<bookmarks, pins, nextId, lk, createdBy, toggleCalls>>

\* form = RemoveBookmarkForm(request, request.POST, instance=b); form.is_valid()
RemoveIsValid(p, serial) ==
    /\ MayStart(p, serial)
    /\ \E u \in Users, b \in bookmarks, commit \in BOOLEAN :
          procs' = [procs EXCEPT ![p] =
                  [IdleProc EXCEPT
                      !.pc = AfterIsValid(RemoveBookmarkForm_clean(u, b)),
                      !.form = "remove", !.user = u, !.instance = b,
                      !.commit = commit]]
    /\ reqs' = reqs + 1
    /\ UNCHANGED <<bookmarks, pins, nextId, lk, createdBy, toggleCalls>>

\* form = ToggleApplicationPinForm(request, request.POST); form.is_valid()
ToggleIsValid(p, serial) ==
    /\ MayStart(p, serial)
    /\ \E u \in Users, app \in AppLabelInputs, commit \in BOOLEAN :
          LET data == [NoData EXCEPT !.app_label = app]
          IN  procs' = [procs EXCEPT ![p] =
                  [IdleProc EXCEPT
                      !.pc = AfterIsValid(ToggleApplicationPinForm_is_valid(u, data)),
                      !.form = "toggle", !.user = u, !.data = data,
                      !.commit = commit]]
    /\ reqs' = reqs + 1
    /\ UNCHANGED <<bookmarks, pins, nextId, lk, createdBy, toggleCalls>>

\* AddBookmarkForm.save(commit)
AddSave(p) ==
    /\ procs[p].pc = "valid"
    /\ procs[p].form = "add"
    /\ LET owner == AddBookmarkForm_owner(procs[p].user, procs[p].data)
           row == [procs[p].instance EXCEPT
                      !.user = owner,
                      !.id = IF procs[p].commit THEN nextId.bookmark ELSE 0]
       IN  /\ procs' = [procs EXCEPT ![p].pc = "done", ![p].instance = row]
           /\ IF procs[p].commit
              THEN /\ bookmarks' = bookmarks \cup {row}
                   /\ nextId' = [nextId EXCEPT !.bookmark = @ + 1]
                   /\ createdBy' = createdBy \cup
                         {[table |-> "bookmark", id |-> row.id, by |-> procs[p].user]}
              ELSE UNCHANGED <<bookmarks, nextId, createdBy>>
    /\ UNCHANGED <<pins, lk, reqs, toggleCalls>>

\* RemoveBookmarkForm.save(commit)
RemoveSave(p) ==
    /\ procs[p].pc = "valid"
    /\ procs[p].form = "remove"
    /\ procs' = [procs EXCEPT ![p].pc = "done"]
    /\ bookmarks' = IF procs[p].commit
                    THEN Model_delete(bookmarks, procs[p].instance.id)
                    ELSE bookmarks
    /\ UNCHANGED <<pins, nextId, lk, reqs, createdBy, toggleCalls>>

\* ToggleApplicationPinForm.save(commit=False): falls through, returns None
ToggleSkip(p) ==
    /\ procs[p].pc = "valid"
    /\ procs[p].form = "toggle"
    /\ ~procs[p].commit
    /\ procs' = [procs EXCEPT ![p].pc = "done"]
    /\ UNCHANGED <<bookmarks, pins, nextId, lk, reqs, createdBy, toggleCalls>>

\* ToggleApplicationPinForm.save: the SELECT of objects.get(...)
ToggleGet(p) ==
    /\ procs[p].pc = "valid"
    /\ procs[p].form = "toggle"
    /\ procs[p].commit
    /\ LET got == PinnedApplication_get(pins, CharField_clean(procs[p].data.app_label),
                                        procs[p].user)
       IN  procs' = [procs EXCEPT
                       ![p].pc = CASE got.outcome = "found" -> "delete"
                                   [] got.outcome = "DoesNotExist" -> "create"
                                   [] OTHER -> "error",
                       ![p].found = got.id,
                       \* history: how many toggles of the pair had completed
                       ![p].seen = toggleCalls[<<procs[p].user,
                                                CharField_clean(procs[p].data.app_label)>>]]
    /\ UNCHANGED <<bookmarks, pins, nextId, lk, reqs, createdBy, toggleCalls>>

\* ToggleApplicationPinForm.save: pinned_app.delete(); return False
ToggleDelete(p) ==
    /\ procs[p].pc = "delete"
    /\ pins' = Model_delete(pins, procs[p].found)
    /\ procs' = [procs EXCEPT ![p].pc = "done", ![p].ret = "False"]
    /\ toggleCalls' = [toggleCalls EXCEPT
                          ![<<procs[p].user, CharField_clean(procs[p].data.app_label)>>] = @ + 1]
    /\ UNCHANGED <<bookmarks, nextId, lk, reqs, createdBy>>

\* ToggleApplicationPinForm.save: objects.create(...); return True
ToggleCreate(p) ==
    /\ procs[p].pc = "create"
    /\ pins' = PinnedApplication_create(pins, nextId.pin,
                                        CharField_clean(procs[p].data.app_label),
                                        procs[p].user)
    /\ nextId' = [nextId EXCEPT !.pin = @ + 1]
    /\ createdBy' = createdBy \cup
          {[table |-> "pin", id |-> nextId.pin, by |-> procs[p].user]}
    /\ procs' = [procs EXCEPT ![p].pc = "done", ![p].ret = "True",
                              ![p].created = nextId.pin]
    /\ toggleCalls' = [toggleCalls EXCEPT
                          ![<<procs[p].user, CharField_clean(procs[p].data.app_label)>>] = @ + 1]
    /\ UNCHANGED <<bookmarks, lk, reqs>>

\* The response is sent and the worker is free again.
Respond(p) ==
    /\ procs[p].pc \in {"done", "rejected", "error"}
    /\ procs' = [procs EXCEPT ![p] = IdleProc]
    /\ UNCHANGED <<bookmarks, pins, nextId, lk, reqs, createdBy, toggleCalls>>

(***************************************************************************)
(* ModelLookupForm: text helpers.  Search text is a sequence of            *)
(* one-character strings.                                                  *)
(***************************************************************************)
LowerChar(c) == CASE c = "A" -> "a" [] c = "B" -> "b" [] c = "C" -> "c" [] OTHER -> c

str_lower(s) == [i \in 1..Len(s) |-> LowerChar(s[i])]

RECURSIVE str_strip(_)
str_strip(s) ==
    IF s = <<>> THEN s
    ELSE IF Head(s) = " " THEN str_strip(Tail(s))
    ELSE IF s[Len(s)] = " " THEN str_strip(SubSeq(s, 1, Len(s) - 1))
    ELSE s

str_contains(s, sub) ==
    \E i \in 0..(Len(s) - Len(sub)) : SubSeq(s, i + 1, i + Len(sub)) = sub

\* the ORM's field__icontains lookup
icontains(value, q) == str_contains(str_lower(value), str_lower(q))

startswith(s, prefix) ==
    Len(s) >= Len(prefix) /\ SubSeq(s, 1, Len(prefix)) = prefix

\* Optional integers: None or a number.
NoneInt == [isNone |-> TRUE, v |-> 0]
SomeInt(n) == [isNone |-> FALSE, v |-> n]

\* Python's `x or default` on an optional integer
OrDefault(x, default) == IF x.isNone \/ x.v = 0 THEN default ELSE x.v

(***************************************************************************)
(* ModelLookupForm: fields                                                 *)
(***************************************************************************)
DefaultLimit == 100
MinPageSize == 1
MaxPageSize == 1000

\* forms.CharField(required=False): strip, missing -> ''
CharField_q(raw) == IF raw.given THEN str_strip(raw.text) ELSE <<>>

\* forms.IntegerField(required=False, min_value=lo, max_value=hi); a bound
\* that is not set is noMin / noMax.  Returns whether the field is valid and
\* its cleaned value.
IntegerField_clean(raw, noMin, lo, noMax, hi) ==
    CASE raw.kind = "absent" -> [ok |-> TRUE, value |-> NoneInt]
      [] raw.kind = "text"   -> [ok |-> FALSE, value |-> NoneInt]
      [] raw.kind = "int"    ->
            IF (noMin \/ raw.v >= lo) /\ (noMax \/ raw.v <= hi)
            THEN [ok |-> TRUE, value |-> SomeInt(raw.v)]
            ELSE [ok |-> FALSE, value |-> NoneInt]

ModelLookupForm_page(raw) == IntegerField_clean(raw, TRUE, 0, TRUE, 0)

ModelLookupForm_page_size(raw) ==
    IntegerField_clean(raw, FALSE, MinPageSize, FALSE, MaxPageSize)

(***************************************************************************)
(* The installation's model registry, content types and permissions.       *)
(***************************************************************************)
NoModel == [app_label |-> "", model_name |-> "", content_type |-> "",
            fields |-> FALSE, query |-> FALSE, filter |-> FALSE]

Registry ==
    { [app_label |-> "jet", model_name |-> "bookmark", content_type |-> "jet.bookmark",
       fields |-> FALSE, query |-> FALSE, filter |-> FALSE],
      [app_label |-> "shop", model_name |-> "item", content_type |-> "shop.item",
       fields |-> TRUE, query |-> FALSE, filter |-> FALSE],
      [app_label |-> "shop", model_name |-> "order", content_type |-> "shop.order",
       fields |-> FALSE, query |-> TRUE, filter |-> FALSE],
      [app_label |-> "shop", model_name |-> "tag", content_type |-> "shop.tag",
       fields |-> TRUE, query |-> TRUE, filter |-> FALSE],
      [app_label |-> "shop", model_name |-> "note", content_type |-> "shop.note",
       fields |-> TRUE, query |-> FALSE, filter |-> TRUE],
      \* a proxy of shop.Item declared in another app: its content type is
      \* the concrete model's
      [app_label |-> "blog", model_name |-> "itemproxy", content_type |-> "shop.item",
       fields |-> FALSE, query |-> FALSE, filter |-> FALSE] }

\* apps.get_model lower-cases the model name, not the app label
ModelNameLower(name) == IF name = "Item" THEN "item" ELSE name

get_model(app_label, model_name) ==
    LET found == {m \in Registry : m.app_label = app_label
                                   /\ m.model_name = ModelNameLower(model_name)}
    IN  IF found = {} THEN NoModel ELSE CHOOSE m \in found : TRUE

ContentType_get_for_model(model_cls) == model_cls.content_type

\* auth_permission: the four default permissions of every model
Permission ==
    { [content_type |-> m.app_label \o "." \o m.model_name,
       codename |-> action \o "_" \o m.model_name] :
         m \in Registry, action \in {"add", "change", "delete", "view"} }

\* the (app_label, model) pairs a lookup request may name
TargetInputs ==
    { <<"shop", "item">>, <<"shop", "Item">>, <<"shop", "order">>, <<"shop", "tag">>,
      <<"shop", "note">>, <<"blog", "itemproxy">>, <<"jet", "bookmark">>,
      <<"shop", "ghost">>, <<Absent, "item">> }

(***************************************************************************)
(* ModelLookupForm.clean                                                   *)
(***************************************************************************)
\* Mutant: the content_type filter is left out.
ModelLookupForm_permissions_AnyContentType(content_type) ==
    {perm \in Permission :
        startswith(perm.codename, "change_") \/ startswith(perm.codename, "view_")}

\* Permission.objects.filter(Q(codename__startswith='change_') |
\*                           Q(codename__startswith='view_'), content_type=ct)
ModelLookupForm_permissions(content_type) ==
    {perm \in Permission :
        /\ startswith(perm.codename, "change_") \/ startswith(perm.codename, "view_")
        /\ perm.content_type = content_type}

ModelLookupForm_permission_granted(u, app_label, permissions) ==
    \E permission \in permissions : has_perm(u, app_label \o "." \o permission.codename)

\* The outcome of clean(): the model class it resolved and whether it
\* returned (TRUE) or raised ValidationError (FALSE).
ModelLookupForm_clean(u, data) ==
    IF ~user_is_authenticated(u) \/ ~is_staff(u)
    THEN [ok |-> FALSE, model_cls |-> NoModel]
    ELSE IF ~RequiredOk(data.app_label) \/ ~RequiredOk(data.model)
            \/ get_model(data.app_label, data.model) = NoModel
    THEN [ok |-> FALSE, model_cls |-> NoModel]
    ELSE LET model_cls == get_model(data.app_label, data.model)
             content_type == ContentType_get_for_model(model_cls)
             permissions == ModelLookupForm_permissions(content_type)
         IN  [ok |-> ModelLookupForm_permission_granted(u, data.app_label, permissions),
              model_cls |-> model_cls]

ModelLookupForm_cleaned_data(data) ==
    [keys |-> {"app_label", "model", "q", "page", "page_size", "object_id"},
     q |-> CharField_q(data.q),
     page |-> ModelLookupForm_page(data.page).value,
     page_size |-> ModelLookupForm_page_size(data.page_size).value]

ModelLookupForm_is_valid(u, data) ==
    /\ RequiredOk(data.app_label)
    /\ RequiredOk(data.model)
    /\ ModelLookupForm_page(data.page).ok
    /\ ModelLookupForm_page_size(data.page_size).ok
    /\ ModelLookupForm_clean(u, data).ok

(***************************************************************************)
(* The rows of the searchable models and their hooks.                      *)
(***************************************************************************)
RowNames == << <<"a", "b">>, <<"B", "a">>, <<"c">>, <<"A">> >>
RowBodies == << <<"c">>, <<"b">>, <<"a", " ", "c">>, <<"b">> >>

Row(i) ==
    [pk |-> i,
     name |-> RowNames[((i - 1) % Len(RowNames)) + 1],
     body |-> RowBodies[((i - 1) % Len(RowBodies)) + 1]]

\* model_cls.objects, in primary-key order
Model_objects == [i \in 1..MaxRows |-> Row(i)]

\* get_model_instance_label(instance)
get_model_instance_label(instance) == <<"#">> \o instance.name

RECURSIVE SelectSeq2(_, _, _)
\* the rows of `rows` that match q on one of `fields`, in order
SelectSeq2(rows, fields, q) ==
    IF rows = <<>> THEN <<>>
    ELSE LET r == Head(rows)
             hit == \E f \in fields :
                       icontains(IF f = "name" THEN r.name ELSE r.body, q)
         IN  (IF hit THEN <<r>> ELSE <<>>) \o SelectSeq2(Tail(rows), fields, q)

RECURSIVE distinct(_)
\* QuerySet.distinct(): every row once, at its first position
distinct(rows) ==
    IF rows = <<>> THEN <<>>
    ELSE LET init == distinct(SubSeq(rows, 1, Len(rows) - 1))
             last == rows[Len(rows)]
         IN  IF \E i \in 1..Len(init) : init[i] = last THEN init
             ELSE Append(init, last)

\* autocomplete_search_fields() of a model that defines it
autocomplete_search_fields(model_cls) ==
    IF model_cls.model_name = "note" THEN {"name", "body"} ELSE {"name"}

RECURSIVE Twice(_)
Twice(rows) ==
    IF rows = <<>> THEN <<>>
    ELSE <<Head(rows), Head(rows)>> \o Twice(Tail(rows))

\* autocomplete_search_query(q, user) of a model that defines it: a join
\* that yields every matching row twice
autocomplete_search_query(q, user) ==
    Twice(SelectSeq2(Model_objects, {"name"}, q))

RECURSIVE autocomplete_search_filter(_)
\* autocomplete_search_filter(items) of a model that defines it: drops the
\* rows with an even primary key
autocomplete_search_filter(items) ==
    IF items = <<>> THEN <<>>
    ELSE (IF Head(items).pk % 2 = 0 THEN <<>> ELSE <<Head(items)>>)
         \o autocomplete_search_filter(Tail(items))

(***************************************************************************)
(* ModelLookupForm.lookup                                                  *)
(***************************************************************************)
\* Mutant: the branch for both hooks comes after the single-hook branches.
ModelLookupForm_strategy_QueryFirst(model_cls, cleaned_data) ==
    IF "q" \in cleaned_data.keys
    THEN IF model_cls.query THEN "query"
         ELSE IF model_cls.fields THEN "fields"
         ELSE "none"
    ELSE "none"

\* Which branch of the if/elif chain runs.
ModelLookupForm_strategy(model_cls, cleaned_data) ==
    IF "q" \in cleaned_data.keys
    THEN IF model_cls.fields /\ model_cls.query THEN "NotImplementedError"
         ELSE IF model_cls.query THEN "query"
         ELSE IF model_cls.fields THEN "fields"
         ELSE "none"
    ELSE "none"

\* qs, as the sequence of rows it selects
ModelLookupForm_qs(model_cls, cleaned_data, user) ==
    LET strategy == ModelLookupForm_strategy(model_cls, cleaned_data)
    IN  CASE strategy = "query" ->
                distinct(autocomplete_search_query(cleaned_data.q, user))
          [] strategy = "fields" ->
                distinct(SelectSeq2(Model_objects,
                                    autocomplete_search_fields(model_cls),
                                    cleaned_data.q))
          [] OTHER -> <<>>

ModelLookupForm_limit(cleaned_data) == OrDefault(cleaned_data.page_size, DefaultLimit)

ModelLookupForm_offset(cleaned_data) ==
    LET limit == ModelLookupForm_limit(cleaned_data)
        page == OrDefault(cleaned_data.page, 1)
    IN  (page - 1) * limit

Min(a, b) == IF a < b THEN a ELSE b

\* qs[start:stop] for 0 <= start <= stop
QuerySet_slice(qs, start, stop) == SubSeq(qs, start + 1, Min(stop, Len(qs)))

ItemOf(instance) == [id |-> instance.pk, text |-> get_model_instance_label(instance)]

ModelLookupForm_lookup(model_cls, cleaned_data, user) ==
    LET strategy == ModelLookupForm_strategy(model_cls, cleaned_data)
        qs == ModelLookupForm_qs(model_cls, cleaned_data, user)
        limit == ModelLookupForm_limit(cleaned_data)
        offset == ModelLookupForm_offset(cleaned_data)
        page == QuerySet_slice(qs, offset, offset + limit)
        items == IF model_cls.filter THEN autocomplete_search_filter(page) ELSE page
    IN  IF strategy = "NotImplementedError"
        THEN [status |-> "NotImplementedError", items |-> <<>>, count |-> NoneInt,
              searched |-> FALSE, qs |-> <<>>]
        ELSE IF offset < 0
        \* QuerySet.__getitem__ refuses a negative index
        THEN [status |-> "NegativeIndexing", items |-> <<>>, count |-> NoneInt,
              searched |-> strategy # "none", qs |-> qs]
        ELSE [status |-> "ok",
              items |-> [i \in 1..Len(items) |-> ItemOf(items[i])],
              count |-> IF model_cls.filter THEN NoneInt ELSE SomeInt(Len(qs)),
              searched |-> strategy # "none", qs |-> qs]

(***************************************************************************)
(* A lookup request.  pc: idle -> valid | rejected -> done -> idle         *)
(***************************************************************************)
NoResult == [status |-> "none", items |-> <<>>, count |-> NoneInt,
             searched |-> FALSE, qs |-> <<>>]

AbsentInt == [kind |-> "absent", v |-> 0]
TextInt == [kind |-> "text", v |-> 0]
RawInt(n) == [kind |-> "int", v |-> n]

NoLookupData ==
    [app_label |-> Absent, model |-> Absent, q |-> [given |-> FALSE, text |-> <<>>],
     page |-> AbsentInt, page_size |-> AbsentInt]

IdleLookup ==
    [pc |-> "idle", user |-> "anon", data |-> NoLookupData,
     cleaned_data |-> ModelLookupForm_cleaned_data(NoLookupData),
     clean |-> FALSE, model_cls |-> NoModel, result |-> NoResult]

QInputs ==
    { [given |-> FALSE, text |-> <<>>], [given |-> TRUE, text |-> <<>>],
      [given |-> TRUE, text |-> <<"a">>], [given |-> TRUE, text |-> <<" ">>] }

PageInputs == {AbsentInt, TextInt} \cup {RawInt(n) : n \in -1..MaxPage}

PageSizeInputs ==
    {AbsentInt, RawInt(0), RawInt(1), RawInt(2), RawInt(MaxPageSize),
     RawInt(MaxPageSize + 1)}

\* Lookup requests are explored from the initial database: a lookup reads
\* only the registry, the permissions and the target model's rows.
MayLookup ==
    /\ lk.pc = "idle"
    /\ reqs = 0
    /\ \A p \in Workers : procs[p].pc = "idle"

\* form = ModelLookupForm(request, request.GET); form.is_valid()
LookupIsValid ==
    /\ MayLookup
    /\ \E u \in Users, target \in TargetInputs, q \in QInputs,
          page \in PageInputs, page_size \in PageSizeInputs :
          LET data == [app_label |-> target[1], model |-> target[2], q |-> q,
                       page |-> page, page_size |-> page_size]
          IN  lk' = [pc |-> AfterIsValid(ModelLookupForm_is_valid(u, data)),
                     user |-> u, data |-> data,
                     cleaned_data |-> ModelLookupForm_cleaned_data(data),
                     clean |-> ModelLookupForm_clean(u, data).ok,
                     model_cls |-> ModelLookupForm_clean(u, data).model_cls,
                     result |-> NoResult]
    /\ UNCHANGED <<bookmarks, pins, nextId, procs, reqs, createdBy, toggleCalls>>

\* items, count = form.lookup(request.user)
LookupRun ==
    /\ lk.pc = "valid"
    /\ lk' = [lk EXCEPT !.pc = "done",
                        !.result = ModelLookupForm_lookup(lk.model_cls,
                                                          lk.cleaned_data, lk.user)]
    /\ UNCHANGED <<bookmarks, pins, nextId, procs, reqs, createdBy, toggleCalls>>

LookupRespond ==
    /\ lk.pc \in {"done", "rejected"}
    /\ lk' = IdleLookup
    /\ UNCHANGED <<bookmarks, pins, nextId, procs, reqs, createdBy, toggleCalls>>

LookupNext == LookupIsValid \/ LookupRun \/ LookupRespond

\* A bookmark that carol added while she was staff; she no longer is.
LegacyBookmark == [id |-> 1, url |-> "/admin/", title |-> "Home", user |-> "carol"]

Init ==
    /\ bookmarks = {LegacyBookmark}
    /\ pins = {}
    /\ nextId = [bookmark |-> 2, pin |-> 1]
    /\ procs = [p \in Workers |-> IdleProc]
    /\ lk = IdleLookup
    /\ reqs = 0
    /\ createdBy = {[table |-> "bookmark", id |-> 1, by |-> "carol"]}
    /\ toggleCalls = [k \in Users \X {"shop"} |-> 0]

WorkerNext(serial) ==
    \E p \in Workers :
        \/ AddIsValid(p, serial)
        \/ RemoveIsValid(p, serial)
        \/ ToggleIsValid(p, serial)
        \/ AddSave(p)
        \/ RemoveSave(p)
        \/ ToggleSkip(p)
        \/ ToggleGet(p)
        \/ ToggleDelete(p)
        \/ ToggleCreate(p)
        \/ Respond(p)

Next == WorkerNext(FALSE) \/ LookupNext

Spec == Init /\ [][Next]_vars

SerialNext == WorkerNext(TRUE) \/ LookupNext

SerialSpec == Init /\ [][SerialNext]_vars

(***************************************************************************)
(* Properties                                                              *)
(***************************************************************************)
Outsider(u) == ~user_is_authenticated(u) \/ ~is_staff(u)

InFlight(p) == procs[p].pc # "idle"

\* C1: for a requester that is unauthenticated or not staff, validation of
\* each of the four forms fails, whatever else was submitted.
C1_OutsiderRejected ==
    /\ \A p \in Workers :
          InFlight(p) /\ Outsider(procs[p].user) => procs[p].pc = "rejected"
    /\ lk.pc # "idle" /\ Outsider(lk.user) => lk.pc = "rejected" /\ ~lk.clean

\* an outsider who owns the bookmark is refused its removal, while another
\* outsider holding the bookmark permission is refused a well-formed add
C1_Witness ==
    \E p, q \in Workers :
        /\ procs[p].form = "remove" /\ procs[p].pc = "rejected"
        /\ Outsider(procs[p].user) /\ procs[p].instance.user = procs[p].user
        /\ procs[q].form = "add" /\ procs[q].pc = "rejected"
        /\ Outsider(procs[q].user)
        /\ has_perm(procs[q].user, "jet.change_bookmark")
        /\ procs[q].data.url # Absent /\ procs[q].data.title # Absent

\* C3: a remove form whose requester is not the bookmark's owner is never
\* saved, and a bookmark leaves the table only in the save of a remove form
\* whose requester is its owner.
C3_NonOwnerRejected ==
    \A p \in Workers :
        procs[p].form = "remove" /\ procs[p].user # procs[p].instance.user
            => procs[p].pc = "rejected"

C3_RemovedByOwnerStep ==
    \A b \in bookmarks :
        b \notin bookmarks' =>
            \E p \in Workers :
                /\ procs[p].form = "remove" /\ procs[p].pc = "valid"
                /\ procs'[p].pc = "done"
                /\ procs[p].instance.id = b.id
                /\ procs[p].user = b.user

C7_OwnerIsCreator ==
    /\ \A b \in bookmarks :
          \E c \in createdBy : c.table = "bookmark" /\ c.id = b.id /\ c.by = b.user
    /\ \A r \in pins :
          \E c \in createdBy : c.table = "pin" /\ c.id = r.id /\ c.by = r.user

\* a saved bookmark whose request also posted another user as its owner
C7_Witness ==
    \E p \in Workers :
        /\ procs[p].form = "add" /\ procs[p].pc = "done" /\ procs[p].commit
        /\ procs[p].data.user # Absent /\ procs[p].data.user # procs[p].user
        /\ procs[p].instance \in bookmarks
        /\ procs[p].instance.user = procs[p].user
        /\ \E r \in pins : r.user # procs[p].user

PinsOf(u, app) == {r \in pins : r.user = u /\ r.app_label = app}

ToggleKey(p) == <<procs[p].user, CharField_clean(procs[p].data.app_label)>>

Odd(k) == k % 2 = 1

\* C6: without interleaving, starting with no pin, the k-th
\* save(commit=True) of a user for an app_label returns true and leaves
\* exactly one pin when k is odd, and returns false and leaves none when k
\* is even.
C6_ToggleAlternates ==
    /\ \A p \in Workers :
          procs[p].form = "toggle" /\ procs[p].pc = "done" /\ procs[p].commit =>
              LET k == toggleCalls[ToggleKey(p)]
              IN  /\ procs[p].ret = (IF Odd(k) THEN "True" ELSE "False")
                  /\ Cardinality(PinsOf(procs[p].user, ToggleKey(p)[2]))
                        = (IF Odd(k) THEN 1 ELSE 0)
    /\ \A key \in DOMAIN toggleCalls :
          Cardinality(PinsOf(key[1], key[2])) = toggleCalls[key] % 2

\* the second call returned false and left no pin
C6_Witness ==
    \E p \in Workers :
        /\ procs[p].form = "toggle" /\ procs[p].pc = "done" /\ procs[p].commit
        /\ toggleCalls[ToggleKey(p)] = 2
        /\ procs[p].ret = "False"
        /\ PinsOf(procs[p].user, ToggleKey(p)[2]) = {}

SameKey(p, q) == p # q /\ procs[p].form = "toggle" /\ procs[q].form = "toggle"
                 /\ ToggleKey(p) = ToggleKey(q)

\* C10: the toggle is a read followed by a write.  Two toggles of one user
\* and app_label that read the same state of the pair (no toggle of the pair
\* completes between the two reads) both act on what they read: if the pin
\* was absent both create a row, leaving two rows for the pair; if it was
\* present both delete the same row and return false, so the two toggles
\* have the net effect of one.
C10_ToggleRace ==
    \A p, q \in Workers :
        SameKey(p, q) /\ procs[p].pc = "done" /\ procs[q].pc = "done"
        /\ procs[p].commit /\ procs[q].commit /\ procs[p].seen = procs[q].seen =>
            IF procs[p].found = 0
            THEN /\ procs[q].found = 0
                 /\ procs[p].ret = "True" /\ procs[q].ret = "True"
                 /\ procs[p].created # procs[q].created
                 /\ {r.id : r \in PinsOf(procs[p].user, ToggleKey(p)[2])}
                       = {procs[p].created, procs[q].created}
            ELSE /\ procs[q].found = procs[p].found
                 /\ procs[p].ret = "False" /\ procs[q].ret = "False"
                 /\ PinsOf(procs[p].user, ToggleKey(p)[2]) = {}

\* both toggles read "absent", both created: two rows for one pair
C10_Witness ==
    \E p, q \in Workers :
        /\ SameKey(p, q) /\ procs[p].pc = "done" /\ procs[q].pc = "done"
        /\ procs[p].seen = procs[q].seen /\ procs[p].found = 0
        /\ procs[p].ret = "True" /\ procs[q].ret = "True"
        /\ Cardinality(PinsOf(procs[p].user, ToggleKey(p)[2])) = 2

\* both toggles read the same row, both deleted and returned false
C10_DoubleDelete ==
    \E p, q \in Workers :
        /\ SameKey(p, q) /\ procs[p].pc = "done" /\ procs[q].pc = "done"
        /\ procs[p].seen = procs[q].seen
        /\ procs[p].found # 0 /\ procs[p].found = procs[q].found
        /\ procs[p].ret = "False" /\ procs[q].ret = "False"
        /\ toggleCalls[ToggleKey(p)] = 3
        /\ PinsOf(procs[p].user, ToggleKey(p)[2]) = {}

LookupDone == lk.pc = "done"

QEmptyOrOmitted == ~lk.data.q.given \/ lk.data.q.text = <<>>

\* C2: whenever lookup returns for a q that is empty or omitted, the item
\* list is empty and the count is 0 or None, whatever hooks the model has.
C2_EmptyQueryEmptyResult ==
    LookupDone /\ QEmptyOrOmitted /\ lk.result.status = "ok" =>
        /\ lk.result.items = <<>>
        /\ lk.result.count.isNone \/ lk.result.count.v = 0

\* the content type's model, as the codenames name it
ContentTypeModel(model_cls) ==
    (CHOOSE m \in Registry :
        m.app_label \o "." \o m.model_name = model_cls.content_type).model_name

\* the requester holds '<app_label>.<codename>' for a change_ or view_
\* codename registered for the content type
HoldsViewOrChange(u, app_label, content_type) ==
    \E perm \in Permission :
        /\ perm.content_type = content_type
        /\ startswith(perm.codename, "change_") \/ startswith(perm.codename, "view_")
        /\ (app_label \o "." \o perm.codename) \in UserTable[u].perms

Resolvable(data) ==
    \E m \in Registry :
        m.app_label = data.app_label /\ m.model_name = ModelNameLower(data.model)

\* C4: for an authenticated staff requester and a resolvable
\* (app_label, model), clean() succeeds exactly when the requester holds a
\* change_ or view_ permission of the model's content type under the
\* submitted app_label; add_/delete_ permissions and permissions of other
\* models do not count.
C4_ViewOrChangeRequired ==
    lk.pc # "idle" /\ ~Outsider(lk.user) /\ Resolvable(lk.data) =>
        LET model_cls == get_model(lk.data.app_label, lk.data.model)
            name == ContentTypeModel(model_cls)
        IN  /\ lk.clean <=> HoldsViewOrChange(lk.user, lk.data.app_label,
                                              model_cls.content_type)
            /\ UserTable[lk.user].perms \cap
                  {lk.data.app_label \o ".change_" \o name,
                   lk.data.app_label \o ".view_" \o name} = {}
                  => ~lk.clean /\ lk.pc = "rejected"

\* a staff requester holding add_ and delete_ on the model and view_/change_
\* on other models is refused
C4_Witness ==
    /\ lk.pc = "rejected" /\ ~lk.clean /\ ~Outsider(lk.user)
    /\ Resolvable(lk.data)
    /\ lk.data.app_label = "shop" /\ lk.data.model = "item"
    /\ {"shop.add_item", "shop.delete_item", "shop.view_order"}
          \subseteq UserTable[lk.user].perms

ClaimedLimit == OrDefault(lk.cleaned_data.page_size, DefaultLimit)

ClaimedOffset == (OrDefault(lk.cleaned_data.page, 1) - 1) * ClaimedLimit

\* the rows of qs at positions [offset, offset + limit)
ClaimedPage ==
    LET n == Len(lk.result.qs)
        positions == {i \in 1..n : ClaimedOffset < i /\ i <= ClaimedOffset + ClaimedLimit}
    IN  [k \in 1..Cardinality(positions) |->
            LET row == lk.result.qs[CHOOSE i \in positions :
                            Cardinality({j \in positions : j < i}) = k - 1]
            IN  [id |-> row.pk, text |-> <<"#">> \o row.name]]

\* C5: for a model without autocomplete_search_filter (and with a single
\* search strategy), lookup returns the rows at positions
\* [offset, offset + limit) of the deduplicated result, in order, and
\* count = the number of matching rows.
C5_PageAndCount ==
    LookupDone /\ ~lk.model_cls.filter /\ ~(lk.model_cls.fields /\ lk.model_cls.query) =>
        /\ lk.result.status = "ok"
        /\ lk.result.items = ClaimedPage
        /\ lk.result.count = SomeInt(Len(lk.result.qs))

\* the same, for the requests whose offset is not negative
C5_PageAndCountFromZero ==
    LookupDone /\ ~lk.model_cls.filter /\ ~(lk.model_cls.fields /\ lk.model_cls.query)
    /\ ClaimedOffset >= 0 =>
        /\ lk.result.status = "ok"
        /\ lk.result.items = ClaimedPage
        /\ lk.result.count = SomeInt(Len(lk.result.qs))

\* C8: every accepted lookup form has page absent or >= 1 and page_size
\* absent or in 1..1000, so the offset lookup computes is never negative.
C8_PageBounds ==
    lk.pc \in {"valid", "done"} =>
        /\ lk.cleaned_data.page.isNone \/ lk.cleaned_data.page.v >= 1
        /\ lk.cleaned_data.page_size.isNone
              \/ (lk.cleaned_data.page_size.v >= MinPageSize
                  /\ lk.cleaned_data.page_size.v <= MaxPageSize)
        /\ ModelLookupForm_offset(lk.cleaned_data) >= 0

\* the part of C8 the code does enforce
C8_PageSizeBounds ==
    lk.pc \in {"valid", "done"} =>
        lk.cleaned_data.page_size.isNone
           \/ (lk.cleaned_data.page_size.v >= MinPageSize
               /\ lk.cleaned_data.page_size.v <= MaxPageSize)

\* C9: for a model with both autocomplete_search_fields and
\* autocomplete_search_query, lookup on a valid form raises
\* NotImplementedError, before any search and without items, whatever q,
\* page and page_size are.
C9_BothHooksFailFast ==
    LookupDone /\ lk.model_cls.fields /\ lk.model_cls.query =>
        /\ lk.result.status = "NotImplementedError"
        /\ ~lk.result.searched
        /\ lk.result.items = <<>>

\* raised even for an empty q and a page that would not slice
C9_Witness ==
    /\ LookupDone /\ lk.model_cls.fields /\ lk.model_cls.query
    /\ lk.result.status = "NotImplementedError"
    /\ QEmptyOrOmitted
    /\ ModelLookupForm_offset(lk.cleaned_data) < 0

====
